---- MODULE Spec2Model ----
(***************************************************************************)
(* A model of the hotbits entropy pipeline:                                *)
(*   - src/src/testing/filter.c         apply_dead_time, apply_window      *)
(*   - src/src/testing/rng-extractor.c  the bit/byte extractors            *)
(*   - src/src/testing/vomneu.c         debias_bits                        *)
(*   - src/src/testing/xor-groups.c     main                               *)
(*   - src/src/trng/trng.c              send_packet, run_gpio_mode,        *)
(*                                      run_receive_mode                   *)
(*                                                                         *)
(* Each program is a specification of its own (FilterSpec, ExtractSpec,    *)
(* GroupSpec, CodecSpec, GpioSpec, ReceiveSpec) over one set of variables; *)
(* GpioLiveSpec is GpioSpec with the fairness its timeout gives it.  The   *)
(* variables of the programs a specification does not run stay at their    *)
(* idle values.                                                            *)
(*                                                                         *)
(* TLC's integers are 32 bits wide, so the filter's uint64_t is scaled to  *)
(* WordBits bits: every wrap-around the code has at 2^64 happens at        *)
(* 2^WordBits in the model.                                                *)
(***************************************************************************)
EXTENDS Integers, Sequences, FiniteSets, TLC

VARIABLES
    \* filter.c
    input_lines,    \* the values on stdin, one per line
    timestamps,     \* main's buffer timestamps[0 .. count-1], handed to the filter function
    dead_time,      \* opts.dead_time_ns
    window_size,    \* opts.window_size_ns
    window_mode,    \* opts.window_mode
    new_count,      \* *new_count as set by the function called
    result,         \* the array the function returns (its first new_count cells)
    fstage,         \* "idle" | "start" | "input" (stdin read) | "dead_time" | "window"
    \* rng-extractor.c, vomneu.c
    values,         \* main: the values read from stdin (count = Len(values))
    method,         \* "interval" | "von_neumann" | "xor_fold" | "lsb"
                    \* (rng-extractor.c -m 0, 1, 2, 3)
                    \* | "debias" (vomneu.c debias_bits) | "none"
    bit_pos,        \* rng-extractor.c -b
    output,         \* output[0 .. out_idx-1]
    current_byte,   \* the extractor's local current_byte
    out_bit_pos,    \* the extractor's local out_bit_pos / bit_count / out_bit_idx
    output_len,     \* *output_len
    xstage,         \* "idle" | "input" | "no_input" | "looped" | "done"
    \* xor-groups.c
    stdin_lines,    \* the values on stdin, one per line
    read_pos,       \* the number of lines fgets has returned
    group_size,     \* atoi(argv[1])
    buffer,         \* buffer[0 .. group_size-1]
    group_count,    \* main's local count
    group_out,      \* the values printed to stdout, one per line
    gstage,         \* "idle" | "reading" | "done"
    \* trng.c: the builds of the sending and of the receiving process
    snd_le,         \* the sender's host is little-endian
    snd_align,      \* the alignment of uint64_t in the sender's structs
    rcv_le,         \* the receiver's host is little-endian
    rcv_align,      \* the alignment of uint64_t in the receiver's structs
    \* trng.c: one packet through send_packet and run_receive_mode's decoding
    packet,         \* send_packet: *packet
    wire,           \* the bytes handed to sendto
    decoded,        \* run_receive_mode: packet after be64toh/be64toh/ntohl
    cstage,         \* "idle" | "start" | "sent" | "decoded" | "discarded"
    \* trng.c: the process
    running,        \* static volatile int running
    \* trng.c: run_gpio_mode
    broadcast_sock, \* run_gpio_mode's argument: -1 in local mode
    host_ok,        \* inet_pton accepts config.host
    last_time,      \* struct timespec last_time
    delta_ns,       \* uint64_t delta_ns
    sequence,       \* uint32_t sequence
    stdout_lines,   \* the deltas printed to stdout
    channel,        \* the records handed to sendto, in order
    failed_sends,   \* the number of "Failed to send packet" lines on stderr
    events,         \* the timestamps of the edge events read so far
    wait_error,     \* gpiod_line_event_wait failed (not EINTR)
    gpc,            \* "idle" | "loop" (at while (running)) | "wait" | "exit"
    \* trng.c: run_receive_mode
    delivered,      \* the datagrams the socket has delivered so far
    rx_out,         \* the deltas printed to stdout
    recv_error,     \* recvfrom failed (not EINTR)
    recv_errno,     \* errno of the last recvfrom that failed, "none" before any has
    rpc             \* "idle" | "loop" (at while (running)) | "recv" | "exit"

filterVars == <<input_lines, timestamps, dead_time, window_size, window_mode, new_count, result, fstage>>
extractVars == <<values, method, bit_pos, output, current_byte, out_bit_pos, output_len, xstage>>
groupVars == <<stdin_lines, read_pos, group_size, buffer, group_count, group_out, gstage>>

buildVars == <<snd_le, snd_align, rcv_le, rcv_align>>
codecVars == <<packet, wire, decoded, cstage>>

gpioVars == <<broadcast_sock, host_ok, last_time, delta_ns, sequence, stdout_lines,
              channel, failed_sends, events, wait_error, gpc>>
recvVars == <<delivered, rx_out, recv_error, recv_errno, rpc>>

vars == <<filterVars, extractVars, groupVars, buildVars, codecVars, running, gpioVars, recvVars>>

\* A program that is not run keeps its variables at these values.
FilterIdle ==
    /\ input_lines = <<>>
    /\ timestamps = <<>>
    /\ dead_time = 0
    /\ window_size = 0
    /\ window_mode = 0
    /\ new_count = 0
    /\ result = <<>>
    /\ fstage = "idle"

ExtractIdle ==
    /\ values = <<>>
    /\ method = "none"
    /\ bit_pos = 0
    /\ output = <<>>
    /\ current_byte = 0
    /\ out_bit_pos = 0
    /\ output_len = 0
    /\ xstage = "idle"

GroupIdle ==
    /\ stdin_lines = <<>>
    /\ read_pos = 0
    /\ group_size = 0
    /\ buffer = <<>>
    /\ group_count = 0
    /\ group_out = <<>>
    /\ gstage = "idle"

BuildIdle ==
    /\ snd_le = TRUE
    /\ snd_align = 8
    /\ rcv_le = TRUE
    /\ rcv_align = 8

NoPacket == [timestamp_ns |-> <<>>, delta_ns |-> <<>>, sequence |-> <<>>]

CodecIdle ==
    /\ packet = NoPacket
    /\ wire = <<>>
    /\ decoded = NoPacket
    /\ cstage = "idle"

\* struct timespec last_time = {0, 0}
ZeroTime == [tv_sec |-> 0, tv_nsec |-> 0]

GpioIdle ==
    /\ broadcast_sock = -1
    /\ host_ok = TRUE
    /\ last_time = ZeroTime
    /\ delta_ns = 0
    /\ sequence = 0
    /\ stdout_lines = <<>>
    /\ channel = <<>>
    /\ failed_sends = 0
    /\ events = <<>>
    /\ wait_error = FALSE
    /\ gpc = "idle"

ReceiveIdle ==
    /\ delivered = <<>>
    /\ rx_out = <<>>
    /\ recv_error = FALSE
    /\ recv_errno = "none"
    /\ rpc = "idle"

\* The specifications of the filter, the extractors and the codec run no
\* trng process.
NoProcess == running = 1 /\ GpioIdle /\ ReceiveIdle

(***************************************************************************)
(* Bounds                                                                  *)
(***************************************************************************)
WordBits == 9
MaxSamples == 5
MaxBlocks == 1
MaxTail == 4
MaxBitPos == 1
MaxEvents == 4
SeqBits == 1
MaxDatagrams == 3
MaxGroupSize == 3
MaxLines == 4

U64Mod == 2 ^ WordBits
U64Max == U64Mod - 1

\* uint64_t arithmetic
SubU64(a, b) == (a - b) % U64Mod
AddU64(a, b) == (a + b) % U64Mod

Last(s) == s[Len(s)]

(***************************************************************************)
(* filter.c: apply_dead_time                                               *)
(***************************************************************************)
\* Mutant: keeps a sample that is exactly dead_time after the last kept one.
DeadTimeKeepsGe(sample, lastKept, dead) == SubU64(sample, lastKept) >= dead

\* if (timestamps[i] - filtered[j-1] > dead_time)
DeadTimeKeeps(sample, lastKept, dead) == SubU64(sample, lastKept) > dead

RECURSIVE DeadTimeLoop(_, _, _, _)
DeadTimeLoop(ts, dead, i, filtered) ==
    IF i > Len(ts) THEN filtered
    ELSE DeadTimeLoop(ts, dead, i + 1,
            IF DeadTimeKeeps(ts[i], Last(filtered), dead)
            THEN Append(filtered, ts[i])
            ELSE filtered)

\* count == 0 returns NULL with *new_count = 0; otherwise the first sample is
\* stored before the loop runs over the rest.
apply_dead_time(ts, dead) ==
    IF Len(ts) = 0 THEN <<>>
    ELSE DeadTimeLoop(ts, dead, 2, <<ts[1]>>)

(***************************************************************************)
(* filter.c: apply_window                                                  *)
(***************************************************************************)
\* timestamps[i] / window_size * window_size
WindowFloor(t, wsize) == (t \div wsize) * wsize

RECURSIVE SumU64(_, _, _)
\* for (k = window_start; k < i; k++) sum += timestamps[k];   (0-based k)
SumU64(ts, from, to) ==
    IF from >= to THEN 0
    ELSE AddU64(ts[from + 1], SumU64(ts, from + 1, to))

\* next_window = (i < count) ? floor(timestamps[i]) : current_window + window_size
NextWindow(ts, i, wsize, current_window) ==
    IF i < Len(ts) THEN WindowFloor(ts[i + 1], wsize)
    ELSE AddU64(current_window, wsize)

\* The switch on mode: the value stored for the window [window_start, i)
\* (0-based), or nothing for a mode the switch has no case for.
WindowEmit(ts, mode, window_start, i) ==
    CASE mode = 0 -> <<ts[window_start + 1]>>
      [] mode = 1 -> <<ts[i]>>
      [] mode = 2 -> <<SumU64(ts, window_start, i) \div (i - window_start)>>
      [] OTHER    -> <<>>

RECURSIVE WindowLoop(_, _, _, _, _, _, _)
\* i, window_start are the code's 0-based indices; ts[k + 1] is timestamps[k].
WindowLoop(ts, wsize, mode, i, window_start, current_window, windowed) ==
    IF i > Len(ts) THEN windowed
    ELSE LET next_window == NextWindow(ts, i, wsize, current_window)
         IN  IF next_window > current_window
             THEN WindowLoop(ts, wsize, mode, i + 1, i, next_window,
                             windowed \o WindowEmit(ts, mode, window_start, i))
             ELSE WindowLoop(ts, wsize, mode, i + 1, window_start,
                             current_window, windowed)

apply_window(ts, wsize, mode) ==
    IF Len(ts) = 0 \/ wsize = 0 THEN <<>>
    ELSE WindowLoop(ts, wsize, mode, 1, 0, WindowFloor(ts[1], wsize), <<>>)

(***************************************************************************)
(* The filter's inputs                                                     *)
(***************************************************************************)
SampleVals == {0, 5, 50, 110, 150, 151, 180, 205, 400, U64Max}
DeadTimes == {0, 1, 100}
WindowSizes == {0, 1, 100, U64Max \div 2 + 2}
WindowModes == 0 .. 3

\* The event source delivers non-decreasing timestamps.
NonDecreasing(s) == \A i \in 1 .. Len(s) - 1 : s[i] <= s[i + 1]
SeqsUpTo(S, n) == UNION {[1 .. k -> S] : k \in 0 .. n}
SampleSeqs == {s \in SeqsUpTo(SampleVals, MaxSamples) : NonDecreasing(s)}

\* #define MAX_BUFFER 10000000, scaled to the longest input that is read whole.
MaxBuffer == MaxSamples

\* The inputs of at most MaxBuffer lines, and those of one line more.
InputLines ==
    SampleSeqs \cup {s \o <<U64Max>> : s \in {t \in SampleSeqs : Len(t) = MaxBuffer}}

RECURSIVE ReadLoop(_, _, _)
\* while (fgets(line, sizeof(line), stdin) && count < MAX_BUFFER)
\*     timestamps[count++] = strtoull(line, NULL, 10);
ReadLoop(lines, count, buf) ==
    IF count < Len(lines) /\ count < MaxBuffer
    THEN ReadLoop(lines, count + 1, Append(buf, lines[count + 1]))
    ELSE buf

\* main returns 0 whatever it has read; it reports nothing on stderr after the
\* malloc of the buffer.
FilterExitStatus == 0

FilterInit ==
    /\ NoProcess
    /\ ExtractIdle
    /\ GroupIdle
    /\ BuildIdle
    /\ CodecIdle
    /\ input_lines \in InputLines
    /\ timestamps = <<>>
    /\ dead_time = 0
    /\ window_size = 0
    /\ window_mode = 0
    /\ new_count = 0
    /\ result = <<>>
    /\ fstage = "start"

\* main reads stdin into timestamps.
ReadInput ==
    /\ fstage = "start"
    /\ timestamps' = ReadLoop(input_lines, 0, <<>>)
    /\ fstage' = "input"
    /\ UNCHANGED <<input_lines, dead_time, window_size, window_mode, new_count, result>>
    /\ UNCHANGED <<extractVars, groupVars, buildVars, codecVars, running, gpioVars, recvVars>>

\* filtered = apply_dead_time(result, count, opts.dead_time_ns, &new_count)
CallDeadTime ==
    /\ fstage = "input"
    /\ \E d \in DeadTimes :
        /\ dead_time' = d
        /\ result' = apply_dead_time(timestamps, d)
        /\ new_count' = Len(apply_dead_time(timestamps, d))
    /\ fstage' = "dead_time"
    /\ UNCHANGED <<input_lines, timestamps, window_size, window_mode>>
    /\ UNCHANGED <<extractVars, groupVars, buildVars, codecVars, running, gpioVars, recvVars>>

\* windowed = apply_window(result, count, opts.window_size_ns, opts.window_mode, &new_count)
CallWindow ==
    /\ fstage = "input"
    /\ \E w \in WindowSizes, m \in WindowModes :
        /\ window_size' = w
        /\ window_mode' = m
        /\ result' = apply_window(timestamps, w, m)
        /\ new_count' = Len(apply_window(timestamps, w, m))
    /\ fstage' = "window"
    /\ UNCHANGED <<input_lines, timestamps, dead_time>>
    /\ UNCHANGED <<extractVars, groupVars, buildVars, codecVars, running, gpioVars, recvVars>>

FilterNext == ReadInput \/ CallDeadTime \/ CallWindow

FilterSpec == FilterInit /\ [][FilterNext]_vars

(***************************************************************************)
(* rng-extractor.c and vomneu.c: the bit-packing extractors                *)
(*                                                                         *)
(* The state of an extractor's loop is the record                          *)
(* [output, current_byte, out_bit_pos] of its locals.                      *)
(***************************************************************************)
BITS_PER_BYTE == 8
UINT8_MOD == 256

LoopStart == [output |-> <<>>, current_byte |-> 0, out_bit_pos |-> 0]

\* current_byte = (current_byte << 1) | bit;  out_bit_pos++;
\* if (out_bit_pos == 8) { output[out_idx++] = current_byte; current_byte = 0;
\*                         out_bit_pos = 0; }
\* bit is 0 or 1 and the shifted byte's low bit is 0, so the or is an addition;
\* the assignment to the uint8_t truncates.
ShiftIn(st, bit) ==
    LET cb  == (st.current_byte * 2 + bit) % UINT8_MOD
        pos == st.out_bit_pos + 1
    IN  IF pos = BITS_PER_BYTE
        THEN [output |-> Append(st.output, cb), current_byte |-> 0, out_bit_pos |-> 0]
        ELSE [output |-> st.output, current_byte |-> cb, out_bit_pos |-> pos]

\* Mutant: the partial byte is stored without the left shift.
FlushPartialNoShift(st) ==
    IF st.out_bit_pos > 0
    THEN [output |-> Append(st.output, st.current_byte),
          current_byte |-> st.current_byte, out_bit_pos |-> st.out_bit_pos]
    ELSE st

\* if (out_bit_pos > 0) { current_byte <<= (8 - out_bit_pos);
\*                        output[out_idx++] = current_byte; }
FlushPartial(st) ==
    IF st.out_bit_pos > 0
    THEN LET cb == (st.current_byte * 2 ^ (BITS_PER_BYTE - st.out_bit_pos)) % UINT8_MOD
         IN  [output |-> Append(st.output, cb),
              current_byte |-> cb, out_bit_pos |-> st.out_bit_pos]
    ELSE st

\* Mutant: a tie emits 1.
IntervalBitGe(a, b) == IF a >= b THEN 1 ELSE 0

\* (intervals[i] > intervals[i + 1])
IntervalBit(a, b) == IF a > b THEN 1 ELSE 0

RECURSIVE IntervalLoop(_, _, _)
\* for (i = 0; i < count - 1; i += 2): i is the code's 0-based index. main calls
\* the extractors with count >= 1 only, so count - 1 does not wrap.
IntervalLoop(intervals, i, st) ==
    IF ~(i < Len(intervals) - 1) THEN st
    ELSE IntervalLoop(intervals, i + 2,
                      ShiftIn(st, IntervalBit(intervals[i + 1], intervals[i + 2])))

\* bits[i] = values[i] & 1 (rng-extractor.c), raw_bits[count] = delta_ns % 2 (vomneu.c)
LowBits(vals) == [i \in 1 .. Len(vals) |-> vals[i] % 2]

\* Mutant: the second bit of a differing pair is emitted.
VonNeumannEmitSecond(st, a, b) == IF a # b THEN ShiftIn(st, b) ELSE st

\* if (input[i] != input[i + 1]) { shift input[i] in }
VonNeumannEmit(st, a, b) == IF a # b THEN ShiftIn(st, a) ELSE st

RECURSIVE VonNeumannLoop(_, _, _)
VonNeumannLoop(input, i, st) ==
    IF ~(i < Len(input) - 1) THEN st
    ELSE VonNeumannLoop(input, i + 2, VonNeumannEmit(st, input[i + 1], input[i + 2]))

\* vomneu.c: if (input[i] != input[i + 1]) { debiased_bit = input[i]; shift it in }
DebiasEmit(st, a, b) == IF a # b THEN ShiftIn(st, a) ELSE st

RECURSIVE DebiasLoop(_, _, _)
DebiasLoop(input, i, st) ==
    IF ~(i < Len(input) - 1) THEN st
    ELSE DebiasLoop(input, i + 2, DebiasEmit(st, input[i + 1], input[i + 2]))

\* (values[i] >> bit_pos) & 1
LsbBit(v, pos) == (v \div 2 ^ pos) % 2

RECURSIVE LsbLoop(_, _, _, _)
LsbLoop(vals, pos, i, st) ==
    IF ~(i < Len(vals)) THEN st
    ELSE LsbLoop(vals, pos, i + 1, ShiftIn(st, LsbBit(vals[i + 1], pos)))

\* uint64_t a ^ b, bit by bit
RECURSIVE XorU64(_, _)
XorU64(a, b) ==
    IF a = 0 /\ b = 0 THEN 0
    ELSE (((a % 2) + (b % 2)) % 2) + 2 * XorU64(a \div 2, b \div 2)

\* Mutant: the xor is stored without the mask.
XorFoldByteNoMask(a, b) == XorU64(a, b)

\* xor_result = timestamps[i] ^ timestamps[i + 1];  xor_result & 0xFF
XorFoldByte(a, b) == XorU64(a, b) % UINT8_MOD

RECURSIVE XorFoldLoop(_, _, _)
\* for (i = 0; i < count - 1; i++) output[out_idx++] = xor_result & 0xFF;
\* xor_fold has no current_byte and no bit counter: they stay as LoopStart has them.
XorFoldLoop(ts, i, st) ==
    IF ~(i < Len(ts) - 1) THEN st
    ELSE XorFoldLoop(ts, i + 1,
                     [st EXCEPT !.output = Append(@, XorFoldByte(ts[i + 1], ts[i + 2]))])

\* The locals of the selected extractor when its loop ends.
RunLoop(m, vals, pos) ==
    CASE m = "interval"    -> IntervalLoop(vals, 0, LoopStart)
      [] m = "von_neumann" -> VonNeumannLoop(LowBits(vals), 0, LoopStart)
      [] m = "debias"      -> DebiasLoop(LowBits(vals), 0, LoopStart)
      [] m = "lsb"         -> LsbLoop(vals, pos, 0, LoopStart)
      [] m = "xor_fold"    -> XorFoldLoop(vals, 0, LoopStart)

\* What follows the loop: the three extractors of rng-extractor.c store the
\* partial byte; debias_bits and xor_fold go straight to *output_len = out_idx.
AfterLoop(m, st) == IF m \in {"debias", "xor_fold"} THEN st ELSE FlushPartial(st)

(***************************************************************************)
(* The extractors' inputs                                                  *)
(***************************************************************************)
ExtractVals == {0, 1, 2}
\* Sixteen values each, so that a pairwise extractor fills a byte.
Blocks == { <<1, 0, 1, 0, 1, 0, 1, 0, 1, 0, 1, 0, 1, 0, 1, 0>>,
            <<0, 1, 0, 1, 0, 1, 0, 1, 0, 1, 0, 1, 0, 1, 0, 1>>,
            <<1, 0, 0, 1, 1, 1, 0, 1, 2, 1, 1, 2, 0, 0, 1, 0>> }
\* The worked examples of the specification.
ExampleInputs == { <<10, 5, 3, 8, 7, 7>>, <<0, 1, 1, 0, 1, 1, 0, 0>> }

RECURSIVE Concat(_)
Concat(ss) == IF Len(ss) = 0 THEN <<>> ELSE ss[1] \o Concat(Tail(ss))

\* Values wider than a byte.
WideVals == {255, 256, 511}

ExtractInputs ==
    {Concat(bs) \o t : bs \in SeqsUpTo(Blocks, MaxBlocks), t \in SeqsUpTo(ExtractVals, MaxTail)}
        \cup ExampleInputs
        \cup SeqsUpTo(WideVals, MaxTail)

Methods == {"interval", "von_neumann", "debias", "lsb", "xor_fold"}

\* rng-extractor.c main's return value once it has returned.
ExitStatus == IF xstage = "no_input" THEN 1 ELSE 0

ExtractInit ==
    /\ NoProcess
    /\ FilterIdle
    /\ GroupIdle
    /\ BuildIdle
    /\ CodecIdle
    /\ values \in ExtractInputs
    /\ method = "none"
    /\ bit_pos = 0
    /\ output = <<>>
    /\ current_byte = 0
    /\ out_bit_pos = 0
    /\ output_len = 0
    /\ xstage = "input"

\* rng-extractor.c main: if (count == 0) { ...; return 1; }
NoInput ==
    /\ xstage = "input"
    /\ Len(values) = 0
    /\ xstage' = "no_input"
    /\ UNCHANGED <<values, method, bit_pos, output, current_byte, out_bit_pos, output_len>>
    /\ UNCHANGED <<filterVars, groupVars, buildVars, codecVars, running, gpioVars, recvVars>>

\* The selected extractor runs its loop over the input.
ExtractLoop ==
    /\ xstage = "input"
    /\ Len(values) > 0
    /\ \E m \in Methods, pos \in 0 .. MaxBitPos :
        /\ (m # "lsb" => pos = 0)
        /\ method' = m
        /\ bit_pos' = pos
        /\ LET st == RunLoop(m, values, pos)
           IN  /\ output' = st.output
               /\ current_byte' = st.current_byte
               /\ out_bit_pos' = st.out_bit_pos
    /\ xstage' = "looped"
    /\ UNCHANGED <<values, output_len>>
    /\ UNCHANGED <<filterVars, groupVars, buildVars, codecVars, running, gpioVars, recvVars>>

\* The extractor stores what is left and sets *output_len = out_idx.
ExtractFinish ==
    /\ xstage = "looped"
    /\ LET st == AfterLoop(method, [output |-> output, current_byte |-> current_byte,
                                   out_bit_pos |-> out_bit_pos])
       IN  /\ output' = st.output
           /\ current_byte' = st.current_byte
           /\ out_bit_pos' = st.out_bit_pos
           /\ output_len' = Len(st.output)
    /\ xstage' = "done"
    /\ UNCHANGED <<values, method, bit_pos>>
    /\ UNCHANGED <<filterVars, groupVars, buildVars, codecVars, running, gpioVars, recvVars>>

ExtractNext == NoInput \/ ExtractLoop \/ ExtractFinish

ExtractSpec == ExtractInit /\ [][ExtractNext]_vars

(***************************************************************************)
(* xor-groups.c: main                                                      *)
(***************************************************************************)
RECURSIVE XorOfFirst(_, _, _)
\* result = buffer[0]; for (i = 1; i < n; i++) result ^= buffer[i];
\* XorOfFirst(buf, n, i) is result once the loop has reached i (n >= 1).
XorOfFirst(buf, n, i) ==
    IF i = 1 THEN buf[1]
    ELSE XorU64(XorOfFirst(buf, n, i - 1), buf[i])

\* printf("%lu\n", result): the whole uint64_t, in decimal.
PrintedForGroup(buf, n) == XorOfFirst(buf, n, n)

GroupVals == {0, 1, 255, 256, 511}
GroupInputs == SeqsUpTo(GroupVals, MaxLines)

\* main after the checks of argv (group_size > 0) and the malloc of buffer, whose
\* cells are written before they are read.
GroupInit ==
    /\ NoProcess
    /\ FilterIdle
    /\ ExtractIdle
    /\ BuildIdle
    /\ CodecIdle
    /\ stdin_lines \in GroupInputs
    /\ read_pos = 0
    /\ group_size \in 1 .. MaxGroupSize
    /\ buffer = [i \in 1 .. group_size |-> 0]
    /\ group_count = 0
    /\ group_out = <<>>
    /\ gstage = "reading"

\* One iteration of while (fgets(line, sizeof(line), stdin)): the value is
\* stored, and a full group is folded and printed.
GroupReadLine ==
    /\ gstage = "reading"
    /\ read_pos < Len(stdin_lines)
    /\ read_pos' = read_pos + 1
    /\ LET buf == [buffer EXCEPT ![group_count + 1] = stdin_lines[read_pos + 1]]
           cnt == group_count + 1
       IN  /\ buffer' = buf
           /\ IF cnt = group_size
              THEN /\ group_out' = Append(group_out, PrintedForGroup(buf, group_size))
                   /\ group_count' = 0
              ELSE /\ group_out' = group_out
                   /\ group_count' = cnt
    /\ UNCHANGED <<stdin_lines, group_size, gstage>>
    /\ UNCHANGED <<filterVars, extractVars, buildVars, codecVars, running, gpioVars, recvVars>>

\* fgets returns NULL at end of input; if (count > 0) the remaining values are
\* folded and printed; return 0.
GroupEndOfInput ==
    /\ gstage = "reading"
    /\ read_pos = Len(stdin_lines)
    /\ group_out' = IF group_count > 0
                    THEN Append(group_out, PrintedForGroup(buffer, group_count))
                    ELSE group_out
    /\ gstage' = "done"
    /\ UNCHANGED <<stdin_lines, read_pos, group_size, buffer, group_count>>
    /\ UNCHANGED <<filterVars, extractVars, buildVars, codecVars, running, gpioVars, recvVars>>

GroupNext == GroupReadLine \/ GroupEndOfInput

GroupSpec == GroupInit /\ [][GroupNext]_vars

(***************************************************************************)
(* trng.c: TRNGPacket and its wire encoding                                *)
(*                                                                         *)
(* A uint64_t or uint32_t value is the sequence of its base-256 digits,    *)
(* most significant first (8 or 4 of them).  Its image in memory is that   *)
(* sequence on a big-endian host and the reverse on a little-endian one.   *)
(***************************************************************************)
U64_BYTES == 8
U32_BYTES == 4

Reverse(s) == [i \in 1 .. Len(s) |-> s[Len(s) + 1 - i]]

\* The object representation of a value, and the value of a representation.
MemImage(v, le) == IF le THEN Reverse(v) ELSE v
FromMem(bytes, le) == IF le THEN Reverse(bytes) ELSE bytes

\* htobe64, htonl: a byte swap on a little-endian host, nothing on a big-endian one.
htobe64(v, le) == IF le THEN Reverse(v) ELSE v
htonl(v, le) == IF le THEN Reverse(v) ELSE v

\* Mutant: the 64-bit fields are not converted back to host order.
be64tohNoSwap(v, le) == v

be64toh(v, le) == IF le THEN Reverse(v) ELSE v
ntohl(v, le) == IF le THEN Reverse(v) ELSE v

\* struct TRNGPacket: timestamp_ns at offset 0, delta_ns at 8, sequence at 16;
\* the struct's size is rounded up to its alignment, which is that of uint64_t:
\* 20 bytes where uint64_t is 4-aligned (i386), 24 where it is 8-aligned.
OFFSET_DELTA == 8
OFFSET_SEQUENCE == 16
FieldsEnd == OFFSET_SEQUENCE + U32_BYTES
SizeofPacket(align) == ((FieldsEnd + align - 1) \div align) * align

\* What the padding of the automatic variable net_packet, which send_packet never
\* writes, may hold.
PadBytes == {0, 165}
Padding(n) == {[i \in 1 .. n |-> b] : b \in PadBytes}

\* send_packet: net_packet's fields are set with htobe64/htobe64/htonl and
\* sendto is given &net_packet and sizeof(net_packet), padding included.
EncodeRecord(p, le, align, pad) ==
    MemImage(htobe64(p.timestamp_ns, le), le)
        \o MemImage(htobe64(p.delta_ns, le), le)
        \o MemImage(htonl(p.sequence, le), le)
        \o pad

\* recvfrom(sock, &packet, sizeof(packet), ...): the datagram is cut to the
\* buffer's size and the return value is the number of bytes stored.
Received(datagram, align) ==
    IF Len(datagram) > SizeofPacket(align) THEN SizeofPacket(align) ELSE Len(datagram)

\* if (received != sizeof(packet)) { ...; continue; }
SizeAccepted(datagram, align) == Received(datagram, align) = SizeofPacket(align)

\* packet.timestamp_ns = be64toh(packet.timestamp_ns); ... on the bytes recvfrom
\* stored in packet.
DecodeRecord(bytes, le) ==
    [timestamp_ns |-> be64toh(FromMem(SubSeq(bytes, 1, U64_BYTES), le), le),
     delta_ns     |-> be64toh(FromMem(SubSeq(bytes, OFFSET_DELTA + 1,
                                             OFFSET_DELTA + U64_BYTES), le), le),
     sequence     |-> ntohl(FromMem(SubSeq(bytes, OFFSET_SEQUENCE + 1,
                                           OFFSET_SEQUENCE + U32_BYTES), le), le)]

(***************************************************************************)
(* One packet from send_packet to run_receive_mode                         *)
(***************************************************************************)
U64Samples == { <<0, 0, 0, 0, 0, 0, 0, 0>>, <<0, 0, 0, 0, 0, 0, 0, 1>>,
                <<1, 2, 3, 4, 5, 6, 7, 8>>,
                <<255, 255, 255, 255, 255, 255, 255, 255>> }
U32Samples == { <<0, 0, 0, 0>>, <<0, 0, 1, 0>>, <<9, 10, 11, 12>>,
                <<255, 255, 255, 255>> }
SamplePackets == [timestamp_ns : U64Samples, delta_ns : U64Samples, sequence : U32Samples]

Aligns == {4, 8}

CodecInit ==
    /\ NoProcess
    /\ FilterIdle
    /\ ExtractIdle
    /\ GroupIdle
    /\ snd_le \in BOOLEAN
    /\ snd_align \in Aligns
    /\ rcv_le \in BOOLEAN
    /\ rcv_align \in Aligns
    /\ packet \in SamplePackets
    /\ wire = <<>>
    /\ decoded = NoPacket
    /\ cstage = "start"

\* send_packet, from net_packet's conversion to sendto.
CodecSend ==
    /\ cstage = "start"
    /\ \E pad \in Padding(SizeofPacket(snd_align) - FieldsEnd) :
          wire' = EncodeRecord(packet, snd_le, snd_align, pad)
    /\ cstage' = "sent"
    /\ UNCHANGED <<packet, decoded>>
    /\ UNCHANGED <<filterVars, extractVars, groupVars, buildVars, running, gpioVars, recvVars>>

\* run_receive_mode: recvfrom, the size test, the conversion to host order.
CodecReceive ==
    /\ cstage = "sent"
    /\ IF SizeAccepted(wire, rcv_align)
       THEN /\ decoded' = DecodeRecord(SubSeq(wire, 1, Received(wire, rcv_align)), rcv_le)
            /\ cstage' = "decoded"
       ELSE /\ decoded' = decoded
            /\ cstage' = "discarded"
    /\ UNCHANGED <<packet, wire>>
    /\ UNCHANGED <<filterVars, extractVars, groupVars, buildVars, running, gpioVars, recvVars>>

CodecNext == CodecSend \/ CodecReceive

CodecSpec == CodecInit /\ [][CodecNext]_vars

(***************************************************************************)
(* trng.c: signal_handler                                                  *)
(***************************************************************************)
\* SIGINT or SIGTERM arrives while a loop runs: running = 0.
SignalHandler ==
    /\ running = 1
    /\ gpc \in {"loop", "wait"} \/ rpc \in {"loop", "recv"}
    /\ running' = 0
    /\ UNCHANGED <<filterVars, extractVars, groupVars, buildVars, codecVars, gpioVars, recvVars>>

(***************************************************************************)
(* trng.c: run_gpio_mode                                                   *)
(*                                                                         *)
(* The locals of the loop are the record                                   *)
(* [last_time, delta_ns, sequence, out, channel, failed, pc].  Timestamps  *)
(* and deltas stay below 2^31 in this model, so the code's uint64_t        *)
(* arithmetic on them never wraps.  The uint32_t sequence is scaled to     *)
(* SeqBits bits: its wrap at 2^32 happens at 2^SeqBits in the model.       *)
(***************************************************************************)
NSEC_PER_SEC == 1000000000

U32Mod == 2 ^ SeqBits

\* Mutant: the counter is never advanced.
NextSequenceStuck(seq) == seq

\* .sequence = sequence++ : the counter after the increment (uint32_t)
NextSequence(seq) == (seq + 1) % U32Mod

\* The base-256 digits of n, most significant first, k of them.
RECURSIVE Digits(_, _)
Digits(n, k) == IF k = 0 THEN <<>> ELSE Append(Digits(n \div 256, k - 1), n % 256)

\* event.ts.tv_sec * 1000000000ULL + event.ts.tv_nsec
TimestampNs(t) == t.tv_sec * NSEC_PER_SEC + t.tv_nsec

\* (event.ts.tv_sec - last_time.tv_sec) * 1000000000ULL
\*     + (event.ts.tv_nsec - last_time.tv_nsec)
DeltaNs(ev, last) ==
    (ev.tv_sec - last.tv_sec) * NSEC_PER_SEC + (ev.tv_nsec - last.tv_nsec)

\* if (last_time.tv_sec != 0)
HasBaseline(last) == last.tv_sec # 0

\* send_packet: -1 before sendto when inet_pton rejects config.host; otherwise
\* the converted net_packet is handed to sendto, whose failure gives -1.
send_packet(pkt, hostok, sendto_ok, le, align, pad) ==
    IF ~hostok THEN [rv |-> -1, handed |-> <<>>]
    ELSE [rv     |-> IF sendto_ok THEN 0 ELSE -1,
          handed |-> <<EncodeRecord([timestamp_ns |-> Digits(pkt.timestamp_ns, U64_BYTES),
                                     delta_ns     |-> Digits(pkt.delta_ns, U64_BYTES),
                                     sequence     |-> Digits(pkt.sequence, U32_BYTES)],
                                    le, align, pad)>>]

\* Mutant: a failed send leaves the loop.
OnSendResultBreak(st, rv) ==
    IF rv < 0 THEN [st EXCEPT !.failed = @ + 1, !.pc = "exit"] ELSE st

\* if (send_packet(...) < 0) fprintf(stderr, "Failed to send packet ..."); else ...
OnSendResult(st, rv) ==
    IF rv < 0 THEN [st EXCEPT !.failed = @ + 1] ELSE st

\* The body of the loop for rv == 1: from gpiod_line_event_read to
\* last_time = event.ts.
GpioBody(st, ev, sock, hostok, sendto_ok, le, align, pad) ==
    LET delta   == DeltaNs(ev, st.last_time)
        printed == [st EXCEPT !.delta_ns = delta, !.out = Append(@, delta)]
        pkt     == [timestamp_ns |-> TimestampNs(ev), delta_ns |-> delta,
                    sequence |-> st.sequence]
        sp      == send_packet(pkt, hostok, sendto_ok, le, align, pad)
        sent    == [printed EXCEPT !.sequence = NextSequence(@), !.channel = @ \o sp.handed]
        after   == IF ~HasBaseline(st.last_time) THEN st
                   ELSE IF sock >= 0 THEN OnSendResult(sent, sp.rv)
                   ELSE printed
    IN  [after EXCEPT !.last_time = ev]

GpioLocals ==
    [last_time |-> last_time, delta_ns |-> delta_ns, sequence |-> sequence,
     out |-> stdout_lines, channel |-> channel, failed |-> failed_sends, pc |-> "loop"]

\* The edge events the line may deliver.
EventTimes == { [tv_sec |-> 0, tv_nsec |-> 500000000],
                [tv_sec |-> 0, tv_nsec |-> 700000000],
                [tv_sec |-> 1, tv_nsec |-> 200000000],
                [tv_sec |-> 1, tv_nsec |-> 999999999],
                [tv_sec |-> 2, tv_nsec |-> 100000000] }

\* The source delivers non-decreasing timestamps.
NotBeforeLast(ev) ==
    IF Len(events) = 0 THEN TRUE
    ELSE TimestampNs(ev) >= TimestampNs(events[Len(events)])

GpioInit ==
    /\ FilterIdle
    /\ ExtractIdle
    /\ GroupIdle
    /\ CodecIdle
    /\ ReceiveIdle
    /\ running = 1
    /\ broadcast_sock \in {-1, 3}
    /\ host_ok \in BOOLEAN
    /\ snd_le \in BOOLEAN
    /\ snd_align \in Aligns
    /\ (broadcast_sock = -1 => host_ok /\ snd_le /\ snd_align = 8)
    /\ rcv_le = TRUE
    /\ rcv_align = 8
    /\ last_time = ZeroTime
    /\ delta_ns = 0
    /\ sequence = 0
    /\ stdout_lines = <<>>
    /\ channel = <<>>
    /\ failed_sends = 0
    /\ events = <<>>
    /\ wait_error = FALSE
    /\ gpc = "loop"

GpioUnchanged == UNCHANGED <<filterVars, extractVars, groupVars, buildVars, codecVars, recvVars>>

\* Mutant: the loop does not look at the flag.
GpioLoopTestIgnoresFlag ==
    /\ gpc = "loop"
    /\ gpc' = "wait"
    /\ UNCHANGED <<broadcast_sock, host_ok, last_time, delta_ns, sequence, stdout_lines,
                   channel, failed_sends, events, wait_error, running>>
    /\ GpioUnchanged

\* while (running)
GpioLoopTest ==
    /\ gpc = "loop"
    /\ gpc' = IF running # 0 THEN "wait" ELSE "exit"
    /\ UNCHANGED <<broadcast_sock, host_ok, last_time, delta_ns, sequence, stdout_lines,
                   channel, failed_sends, events, wait_error, running>>
    /\ GpioUnchanged

\* gpiod_line_event_wait returns 1 and the event is read and handled.
GpioEvent ==
    /\ gpc = "wait"
    /\ Len(events) < MaxEvents
    /\ \E ev \in EventTimes, sendto_ok \in BOOLEAN,
          pad \in Padding(SizeofPacket(snd_align) - FieldsEnd) :
        /\ NotBeforeLast(ev)
        /\ (~(broadcast_sock >= 0 /\ HasBaseline(last_time) /\ host_ok)
                => sendto_ok /\ \A i \in DOMAIN pad : pad[i] = 0)
        /\ LET st == GpioBody(GpioLocals, ev, broadcast_sock, host_ok, sendto_ok,
                              snd_le, snd_align, pad)
           IN  /\ last_time' = st.last_time
               /\ delta_ns' = st.delta_ns
               /\ sequence' = st.sequence
               /\ stdout_lines' = st.out
               /\ channel' = st.channel
               /\ failed_sends' = st.failed
               /\ gpc' = st.pc
        /\ events' = Append(events, ev)
    /\ UNCHANGED <<broadcast_sock, host_ok, wait_error, running>>
    /\ GpioUnchanged

\* gpiod_line_event_wait returns 0: the one-second timeout passed.
GpioTimeout ==
    /\ gpc = "wait"
    /\ gpc' = "loop"
    /\ UNCHANGED <<broadcast_sock, host_ok, last_time, delta_ns, sequence, stdout_lines,
                   channel, failed_sends, events, wait_error, running>>
    /\ GpioUnchanged

\* gpiod_line_event_wait returns -1: with errno == EINTR the loop goes on,
\* otherwise perror and break.
GpioWaitFails ==
    /\ gpc = "wait"
    /\ \E eintr \in BOOLEAN :
        /\ gpc' = IF eintr THEN "loop" ELSE "exit"
        /\ wait_error' = ~eintr
    /\ UNCHANGED <<broadcast_sock, host_ok, last_time, delta_ns, sequence, stdout_lines,
                   channel, failed_sends, events, running>>
    /\ GpioUnchanged

GpioNext == GpioLoopTest \/ GpioEvent \/ GpioTimeout \/ GpioWaitFails \/ SignalHandler

GpioSpec == GpioInit /\ [][GpioNext]_vars

\* The process keeps running, so the loop test is reached, and
\* gpiod_line_event_wait is given a timeout of {1, 0}, so a wait that nothing
\* else ends is ended by the timeout.
GpioLiveSpec ==
    /\ GpioSpec
    /\ WF_vars(GpioLoopTest)
    /\ WF_vars(GpioTimeout)

\* What run_gpio_mode(-1), the local mode, holds after the events evs.
RECURSIVE LocalRun(_, _)
LocalRun(evs, st) ==
    IF Len(evs) = 0 THEN st
    ELSE LocalRun(Tail(evs), GpioBody(st, Head(evs), -1, TRUE, TRUE, TRUE, 8, <<>>))

LocalStart ==
    [last_time |-> ZeroTime, delta_ns |-> 0, sequence |-> 0, out |-> <<>>,
     channel |-> <<>>, failed |-> 0, pc |-> "loop"]

(***************************************************************************)
(* trng.c: run_receive_mode                                                *)
(***************************************************************************)
\* The datagrams that may arrive: two packets in the 20-byte big-endian format,
\* each also one byte short, with 4 bytes of padding, and with one byte more than
\* either; and the empty datagram.
RxPackets == { [timestamp_ns |-> <<1, 2, 3, 4, 5, 6, 7, 8>>,
                delta_ns |-> <<0, 0, 0, 0, 0, 0, 0, 1>>, sequence |-> <<0, 0, 0, 0>>],
               [timestamp_ns |-> <<1, 2, 3, 4, 5, 6, 7, 9>>,
                delta_ns |-> <<0, 0, 0, 0, 0, 0, 1, 2>>, sequence |-> <<0, 0, 0, 1>>] }
BigEndianFields(p) == p.timestamp_ns \o p.delta_ns \o p.sequence
Datagrams ==
    UNION { { BigEndianFields(p),
              SubSeq(BigEndianFields(p), 1, Len(BigEndianFields(p)) - 1),
              BigEndianFields(p) \o <<7>>,
              BigEndianFields(p) \o <<0, 0, 0, 0>>,
              BigEndianFields(p) \o <<0, 0, 0, 0, 7>> } : p \in RxPackets }
        \cup {<<>>}

ReceiveInit ==
    /\ FilterIdle
    /\ ExtractIdle
    /\ GroupIdle
    /\ CodecIdle
    /\ GpioIdle
    /\ running = 1
    /\ snd_le = TRUE
    /\ snd_align = 8
    /\ rcv_le \in BOOLEAN
    /\ rcv_align \in Aligns
    /\ delivered = <<>>
    /\ rx_out = <<>>
    /\ recv_error = FALSE
    /\ recv_errno = "none"
    /\ rpc = "loop"

ReceiveUnchanged == UNCHANGED <<filterVars, extractVars, groupVars, buildVars, codecVars, gpioVars>>

\* while (running)
ReceiveLoopTest ==
    /\ rpc = "loop"
    /\ rpc' = IF running # 0 THEN "recv" ELSE "exit"
    /\ UNCHANGED <<delivered, rx_out, recv_error, recv_errno, running>>
    /\ ReceiveUnchanged

\* recvfrom returns a datagram: a wrong size is reported and skipped, the right
\* size is converted and its delta printed.
ReceiveDatagram ==
    /\ rpc = "recv"
    /\ Len(delivered) < MaxDatagrams
    /\ \E d \in Datagrams :
        /\ delivered' = Append(delivered, d)
        /\ rx_out' = IF SizeAccepted(d, rcv_align)
                     THEN Append(rx_out,
                                 DecodeRecord(SubSeq(d, 1, Received(d, rcv_align)),
                                              rcv_le).delta_ns)
                     ELSE rx_out
    /\ rpc' = "loop"
    /\ UNCHANGED <<recv_error, recv_errno, running>>
    /\ ReceiveUnchanged

\* What a failed recvfrom may leave in errno: an interrupting signal, a
\* descriptor that has been closed, a failure of the transport.
RecvErrnos == {"EINTR", "EBADF", "ENOMEM"}

\* recvfrom returns -1: with errno == EINTR continue, otherwise perror and break.
ReceiveFails ==
    /\ rpc = "recv"
    /\ \E e \in RecvErrnos :
        /\ rpc' = IF e = "EINTR" THEN "loop" ELSE "exit"
        /\ recv_error' = (e # "EINTR")
        /\ recv_errno' = e
    /\ UNCHANGED <<delivered, rx_out, running>>
    /\ ReceiveUnchanged

ReceiveNext == ReceiveLoopTest \/ ReceiveDatagram \/ ReceiveFails \/ SignalHandler

ReceiveSpec == ReceiveInit /\ [][ReceiveNext]_vars

(***************************************************************************)
(* Claims about the filter                                                 *)
(***************************************************************************)
RECURSIVE SelectIdx(_, _, _)
\* The samples of ts at the indices in S, in input order.
SelectIdx(ts, S, i) ==
    IF i > Len(ts) THEN <<>>
    ELSE (IF i \in S THEN <<ts[i]>> ELSE <<>>) \o SelectIdx(ts, S, i + 1)

\* The greatest index of S below i.
PrevKept(S, i) == CHOOSE j \in S : j < i /\ \A k \in S : k < i => k <= j

\* C1: for a non-decreasing, non-empty input and any dead time, apply_dead_time
\* keeps the first sample and returns the order-preserving subsequence in which a
\* later sample is kept exactly when it exceeds the last kept sample by strictly
\* more than the dead time; every consecutive kept pair is more than the dead
\* time apart.
C1_DeadTimeSubsequence ==
    (fstage = "dead_time" /\ Len(timestamps) > 0) =>
        /\ new_count = Len(result)
        /\ result[1] = timestamps[1]
        /\ \A i \in 2 .. Len(result) : result[i] - result[i - 1] > dead_time
        /\ \E S \in SUBSET (1 .. Len(timestamps)) :
              /\ 1 \in S
              /\ \A i \in 2 .. Len(timestamps) :
                    i \in S <=> timestamps[i] - timestamps[PrevKept(S, i)] > dead_time
              /\ result = SelectIdx(timestamps, S, 1)

\* C1 witness: the specification's example, [0,50,150,151,400] with dead time
\* 100, has been filtered to [0,150,400].
C1_Witness ==
    /\ fstage = "dead_time"
    /\ timestamps = <<0, 50, 150, 151, 400>>
    /\ dead_time = 100
    /\ result = <<0, 150, 400>>

\* C2 (as claimed): for a sorted non-empty input, a window size > 0 and a mode in
\* {First, Last, Mean}, apply_window emits exactly one value per distinct window
\* floor spanned by the input; the last window is always closed and emitted.
C2_OneValuePerWindow ==
    (fstage = "window" /\ Len(timestamps) > 0 /\ window_size > 0
        /\ window_mode \in 0 .. 2) =>
        /\ new_count = Len(result)
        /\ new_count = Cardinality({WindowFloor(timestamps[i], window_size) :
                                       i \in 1 .. Len(timestamps)})

\* The indices at which a window begins: the first sample and every sample whose
\* window floor differs from its predecessor's.
WindowStarts(ts, w) ==
    {i \in 1 .. Len(ts) : i = 1 \/ WindowFloor(ts[i], w) # WindowFloor(ts[i - 1], w)}

\* The index at which the j-th window begins, and the index at which the window
\* beginning at s ends.
NthWindowStart(ts, w, j) ==
    CHOOSE i \in WindowStarts(ts, w) :
        Cardinality({x \in WindowStarts(ts, w) : x < i}) = j - 1
WindowEndOf(ts, w, s) ==
    CHOOSE e \in s .. Len(ts) :
        /\ \A k \in s .. e : WindowFloor(ts[k], w) = WindowFloor(ts[s], w)
        /\ (e = Len(ts) \/ WindowFloor(ts[e + 1], w) # WindowFloor(ts[s], w))

RECURSIVE ExactSum(_, _, _)
\* ts[s] + ... + ts[e], as a number.
ExactSum(ts, s, e) == IF s > e THEN 0 ELSE ts[s] + ExactSum(ts, s + 1, e)

\* C12: the j-th value apply_window emits is the representative of the j-th
\* window of the input: its first sample in mode First, its last sample in mode
\* Last, and floor(sum of its samples / their number) in mode Mean, which lies
\* between the window's first and last sample.
C12_WindowRepresentative ==
    (fstage = "window" /\ window_size > 0 /\ window_mode \in 0 .. 2) =>
        \A j \in 1 .. Len(result) :
            LET s == NthWindowStart(timestamps, window_size, j)
                e == WindowEndOf(timestamps, window_size, s)
            IN  /\ window_mode = 0 => result[j] = timestamps[s]
                /\ window_mode = 1 => result[j] = timestamps[e]
                /\ window_mode = 2 =>
                      /\ result[j] = ExactSum(timestamps, s, e) \div (e - s + 1)
                      /\ timestamps[s] <= result[j]
                      /\ result[j] <= timestamps[e]

\* C15: the filter buffers at most the maximum sample count, and an input that
\* exceeds the maximum is reported as an error: main does not go on, with exit
\* status 0, on the first maximum-count samples alone.
C15_ExcessIsAnError ==
    fstage \in {"input", "dead_time", "window"} =>
        /\ Len(timestamps) <= MaxBuffer
        /\ Len(input_lines) > MaxBuffer => FilterExitStatus # 0

(***************************************************************************)
(* Claims about the extractors                                             *)
(***************************************************************************)
\* Bit j (from 0) of a byte sequence read MSB-first: bit (7 - j mod 8) of
\* byte floor(j / 8).
BitAt(bytes, j) == (bytes[j \div 8 + 1] \div 2 ^ (7 - (j % 8))) % 2

BytesFor(k) == (k + 7) \div 8

\* bytes holds exactly the bits of `bits`, MSB-first, in ceil(k/8) bytes, the
\* unused low-order bits of the last byte being zero.
PackedMsbFirst(bytes, bits) ==
    /\ Len(bytes) = BytesFor(Len(bits))
    /\ \A j \in 0 .. Len(bits) - 1 : BitAt(bytes, j) = bits[j + 1]
    /\ \A j \in Len(bits) .. 8 * Len(bytes) - 1 : BitAt(bytes, j) = 0
    /\ \A i \in 1 .. Len(bytes) : bytes[i] \in 0 .. 255

\* The bits an extractor's locals hold: the stored bytes, then the pos bits
\* collected in current_byte.
CollectedBits(out, cb, pos) ==
    [q \in 1 .. 8 * Len(out) + pos |->
        IF q <= 8 * Len(out) THEN BitAt(out, q - 1)
        ELSE (cb \div 2 ^ (8 * Len(out) + pos - q)) % 2]

\* One bit per non-overlapping pair (a, b): 1 if a > b, else 0.
CompareBits(vals) ==
    [j \in 1 .. Len(vals) \div 2 |-> IF vals[2 * j - 1] > vals[2 * j] THEN 1 ELSE 0]

\* The non-overlapping pairs (numbered from 1) whose two bits differ.
DifferingPairs(b) == {j \in 1 .. Len(b) \div 2 : b[2 * j - 1] # b[2 * j]}

\* The first elements of the differing pairs, in order.
FirstOfDiffering(b) ==
    LET D == DifferingPairs(b)
        nth(r) == CHOOSE j \in D : Cardinality({x \in D : x < j}) = r - 1
    IN  [r \in 1 .. Cardinality(D) |-> b[2 * nth(r) - 1]]

\* One bit per value: bit `pos` of it.
SelectedBits(vals, pos) == [i \in 1 .. Len(vals) |-> (vals[i] \div 2 ^ pos) % 2]

ParityBits(vals) == [i \in 1 .. Len(vals) |-> vals[i] % 2]

\* The extractors that pack single bits into bytes; xor_fold stores whole bytes.
BitPackingMethods == {"interval", "von_neumann", "debias", "lsb"}

\* The bits each bit-packing extractor is to emit for the input.
EmittedBits(m, vals, pos) ==
    CASE m = "interval"    -> CompareBits(vals)
      [] m = "von_neumann" -> FirstOfDiffering(ParityBits(vals))
      [] m = "debias"      -> FirstOfDiffering(ParityBits(vals))
      [] m = "lsb"         -> SelectedBits(vals, pos)

\* C8: interval_compare consumes its n >= 2 inputs in non-overlapping pairs
\* (a, b), emitting 1 if a > b and 0 otherwise (ties give 0), ignores an unpaired
\* trailing sample, and so collects exactly floor(n/2) bits, which it returns
\* packed MSB-first.
C8_IntervalCompare ==
    (method = "interval" /\ Len(values) >= 2) =>
        /\ xstage = "looped" =>
              /\ 8 * Len(output) + out_bit_pos = Len(values) \div 2
              /\ CollectedBits(output, current_byte, out_bit_pos) = CompareBits(values)
        /\ xstage = "done" =>
              /\ output_len = Len(output)
              /\ PackedMsbFirst(output, CompareBits(values))

\* C8 witness: the specification's example, [10,5,3,8,7,7], has given the
\* single byte 0x80.
C8_Witness ==
    /\ xstage = "done"
    /\ method = "interval"
    /\ values = <<10, 5, 3, 8, 7, 7>>
    /\ output = <<128>>
    /\ output_len = 1

\* C9: Von Neumann extraction (von_neumann_extract and debias_bits) consumes the
\* input bits in non-overlapping pairs (a, b) and collects a when a # b and
\* nothing when a = b: the bits collected when the loop ends are exactly the first
\* elements of the differing pairs, in order; von_neumann_extract returns them
\* packed MSB-first.
C9_VonNeumann ==
    (method \in {"von_neumann", "debias"}) =>
        /\ xstage = "looped" =>
              CollectedBits(output, current_byte, out_bit_pos)
                  = FirstOfDiffering(ParityBits(values))
        /\ (xstage = "done" /\ method = "von_neumann") =>
              /\ output_len = Len(output)
              /\ PackedMsbFirst(output, FirstOfDiffering(ParityBits(values)))

\* C9 witness: the specification's example, bits [0,1,1,0,1,1,0,0], has given
\* the byte 0x40.
C9_Witness ==
    /\ xstage = "done"
    /\ method = "von_neumann"
    /\ values = <<0, 1, 1, 0, 1, 1, 0, 0>>
    /\ output = <<64>>
    /\ output_len = 1

\* C10 (as claimed): every bit-packing extractor, debias_bits included, returns
\* its k emitted bits MSB-first in exactly ceil(k/8) bytes, a partially filled
\* last byte always being emitted with its low-order bits zero.
C10_AllEmitPartialByte ==
    (xstage = "done" /\ method \in BitPackingMethods) =>
        /\ output_len = Len(output)
        /\ PackedMsbFirst(output, EmittedBits(method, values, bit_pos))

\* C10 (amended): interval_compare, von_neumann_extract and extract_lsbs return
\* their k emitted bits MSB-first in exactly ceil(k/8) bytes, a partially filled
\* last byte always being emitted with its low-order bits zero; debias_bits
\* returns only the floor(k/8) complete bytes and drops the remaining k mod 8 bits.
C10_PartialByteExceptDebias ==
    (xstage = "done" /\ method \in BitPackingMethods) =>
        LET bits == EmittedBits(method, values, bit_pos)
        IN  /\ output_len = Len(output)
            /\ method # "debias" => PackedMsbFirst(output, bits)
            /\ method = "debias" =>
                  PackedMsbFirst(output, SubSeq(bits, 1, 8 * (Len(bits) \div 8)))

\* C10 witness: von_neumann_extract has returned a full byte followed by a
\* partially filled one.
C10_Witness ==
    /\ xstage = "done"
    /\ method = "von_neumann"
    /\ Len(output) = 2
    /\ out_bit_pos \in 1 .. 7
    /\ output[2] # 0

\* The extractors that consume their input two samples at a time.
PairwiseMethods == {"interval", "von_neumann", "xor_fold"}

\* C11: empty input never produces an error.  For the extractor program: once
\* main has returned, an empty input has given an empty output (output length 0)
\* with exit status 0, and a pairwise method given fewer than 2 samples has given
\* an empty output, nothing stored, with exit status 0.
C11_EmptyInputNoError ==
    xstage \in {"no_input", "done"} =>
        /\ Len(values) = 0 => (ExitStatus = 0 /\ output_len = 0)
        /\ (Len(values) < 2 /\ method \in PairwiseMethods) =>
              (ExitStatus = 0 /\ output_len = 0 /\ output = <<>>)

\* Bit k of a XOR b, and the low 8 bits of a XOR b.
XorBit(a, b, k) == ((a \div 2 ^ k) + (b \div 2 ^ k)) % 2
LowByteOfXor(a, b) ==
    XorBit(a, b, 0) + 2 * XorBit(a, b, 1) + 4 * XorBit(a, b, 2) + 8 * XorBit(a, b, 3)
        + 16 * XorBit(a, b, 4) + 32 * XorBit(a, b, 5) + 64 * XorBit(a, b, 6)
        + 128 * XorBit(a, b, 7)

\* C14: xor_fold slides over its n >= 2 inputs one sample at a time and emits
\* exactly n - 1 whole bytes, byte i being the low 8 bits of
\* timestamps[i] XOR timestamps[i+1]; nothing is packed below the byte and no
\* padding byte is added.
C14_XorFoldAdjacent ==
    (method = "xor_fold" /\ Len(values) >= 2 /\ xstage \in {"looped", "done"}) =>
        /\ Len(output) = Len(values) - 1
        /\ \A i \in 1 .. Len(values) - 1 :
              output[i] = LowByteOfXor(values[i], values[i + 1])
        /\ out_bit_pos = 0
        /\ xstage = "done" => output_len = Len(values) - 1

\* C14 witness: xor_fold has returned the two bytes 0xff, 0xff for [255, 256, 511],
\* whose xors are 511 and 255.
C14_Witness ==
    /\ xstage = "done"
    /\ method = "xor_fold"
    /\ values = <<255, 256, 511>>
    /\ output = <<255, 255>>
    /\ output_len = 2

(***************************************************************************)
(* Claims about xor-groups                                                 *)
(***************************************************************************)
RECURSIVE XorAll(_)
\* The XOR of all the values of a non-empty sequence.
XorAll(vs) == IF Len(vs) = 1 THEN vs[1] ELSE XorU64(vs[1], XorAll(Tail(vs)))

\* The j-th group of `size` consecutive values, the last one holding what is left.
GroupOf(vs, size, j) ==
    SubSeq(vs, (j - 1) * size + 1, IF j * size < Len(vs) THEN j * size ELSE Len(vs))

\* C13: xor-groups emits, for each of the ceil(n/size) consecutive groups of its
\* n inputs, the remainder group included, exactly one byte that is the XOR of
\* all the values of the group.
C13_OneBytePerGroup ==
    gstage = "done" =>
        LET n == Len(stdin_lines)
            k == (n + group_size - 1) \div group_size
        IN  /\ Len(group_out) = k
            /\ \A j \in 1 .. k :
                  /\ group_out[j] = XorAll(GroupOf(stdin_lines, group_size, j))
                  /\ group_out[j] \in 0 .. UINT8_MOD - 1

(***************************************************************************)
(* Claims about the packet codec                                           *)
(***************************************************************************)
\* C3: decoding the bytes that send_packet's encoding produces
\* (run_receive_mode's be64toh/be64toh/ntohl) yields a packet equal to the
\* original in all three fields, whatever the byte orders of the two hosts.
C3_RoundTrip ==
    cstage = "decoded" =>
        /\ decoded.timestamp_ns = packet.timestamp_ns
        /\ decoded.delta_ns = packet.delta_ns
        /\ decoded.sequence = packet.sequence

\* C3 witness: a packet whose fields' bytes all differ has been decoded on a
\* little-endian host.
C3_Witness ==
    /\ cstage = "decoded"
    /\ rcv_le
    /\ packet.timestamp_ns = <<1, 2, 3, 4, 5, 6, 7, 8>>
    /\ packet.delta_ns = <<0, 0, 0, 0, 0, 0, 0, 1>>
    /\ packet.sequence = <<9, 10, 11, 12>>

\* C4 (as claimed): the record handed to the datagram channel is exactly 20
\* bytes: the big-endian timestampNs, the big-endian deltaNs, the big-endian
\* sequence, and nothing else.
C4_TwentyByteRecord ==
    cstage \in {"sent", "decoded", "discarded"} =>
        /\ Len(wire) = U64_BYTES + U64_BYTES + U32_BYTES
        /\ wire = packet.timestamp_ns \o packet.delta_ns \o packet.sequence

(***************************************************************************)
(* Claims about the producing and the receiving loop                       *)
(***************************************************************************)
IsPacketSized(d) == Len(d) = U64_BYTES + U64_BYTES + U32_BYTES

\* C5 (as claimed): every datagram whose length is not exactly 20 bytes, shorter
\* or longer, is discarded, and every datagram of exactly 20 bytes is decoded and
\* its delta written, in delivery order: the output is the big-endian deltaNs
\* fields of the 20-byte datagrams delivered, in order.
C5_OnlyExactSizeWritten ==
    LET exact == SelectSeq(delivered, IsPacketSized)
    IN  rx_out = [i \in 1 .. Len(exact) |->
                    SubSeq(exact[i], U64_BYTES + 1, U64_BYTES + U64_BYTES)]

\* C6 (as claimed): the first event only sets the baseline and every later event
\* t_i writes exactly one delta, t_i - t_(i-1), so n + 1 events have written
\* exactly n deltas, whatever timeouts came between them.
C6_OneDeltaPerLaterEvent ==
    stdout_lines = [i \in 1 .. Len(events) - 1 |->
                      TimestampNs(events[i + 1]) - TimestampNs(events[i])]

\* C7: in broadcast mode the deltas written are those local mode writes for the
\* same events, whatever sends failed, and a failed send never ends the loop: the
\* loop has only ended on a cleared running flag or a failed event wait.
C7_SendFailureHarmless ==
    broadcast_sock >= 0 =>
        /\ stdout_lines = LocalRun(events, LocalStart).out
        /\ last_time = LocalRun(events, LocalStart).last_time
        /\ gpc = "exit" => (running = 0 \/ wait_error)

\* C7 witness: in broadcast mode two sends have failed and both deltas are on
\* stdout, the second written after the first failure, and the loop is waiting
\* for the next event.
C7_Witness ==
    /\ broadcast_sock >= 0
    /\ failed_sends = 2
    /\ Len(stdout_lines) = 2
    /\ gpc = "wait"

\* The three fields of a record on the wire, each a big-endian digit sequence.
WireTimestamp(rec) == SubSeq(rec, 1, U64_BYTES)
WireDelta(rec) == SubSeq(rec, OFFSET_DELTA + 1, OFFSET_DELTA + U64_BYTES)
WireSequence(rec) == SubSeq(rec, OFFSET_SEQUENCE + 1, OFFSET_SEQUENCE + U32_BYTES)

\* C16: the sequence counter starts at 0 and is advanced by exactly the events
\* that write a delta in broadcast mode (never by the baseline event, a timeout
\* or local mode); the k-th packet handed to the channel, whether or not its send
\* succeeded, carries sequence (k-1) modulo the counter's width, the delta that
\* was written to stdout for it, and the timestamp of the event that gave it.
C16_SequenceNumbering ==
    /\ sequence = (IF broadcast_sock >= 0 THEN Len(stdout_lines) ELSE 0) % U32Mod
    /\ Len(channel) = (IF broadcast_sock >= 0 /\ host_ok THEN Len(stdout_lines) ELSE 0)
    /\ \A k \in 1 .. Len(channel) :
          /\ WireSequence(channel[k]) = Digits((k - 1) % U32Mod, U32_BYTES)
          /\ WireDelta(channel[k]) = Digits(stdout_lines[k], U64_BYTES)
          /\ \E i \in 2 .. Len(events) :
                /\ WireTimestamp(channel[k]) = Digits(TimestampNs(events[i]), U64_BYTES)
                /\ stdout_lines[k] = TimestampNs(events[i]) - TimestampNs(events[i - 1])

\* C16 witness: in broadcast mode the counter has wrapped: more packets than the
\* counter has values were handed to the channel, one of them by a send that
\* failed, and the packet after the wrap carries sequence 0 again.
C16_Witness ==
    /\ broadcast_sock >= 0
    /\ failed_sends >= 1
    /\ Len(channel) = U32Mod + 1
    /\ WireSequence(channel[U32Mod + 1]) = Digits(0, U32_BYTES)
    /\ sequence = 1

\* C17: cancellation is cooperative and is seen only at the loop test.  The
\* signal handler only clears the flag: it moves the loop nowhere and a wait in
\* flight stays in flight.  Once the flag is cleared the loop begins no further
\* wait; an event is only handled by the wait that was in flight returning, so at
\* most one further event is handled and at most one further delta written; and
\* the loop then exits.
C17_CooperativeCancellation ==
    /\ [][running' # running =>
            (running' = 0 /\ gpc' = gpc /\ events' = events
                /\ stdout_lines' = stdout_lines)]_vars
    /\ [][(running = 0 /\ gpc' = "wait") => gpc = "wait"]_vars
    /\ [][(running = 0 /\ events' # events) =>
            (gpc = "wait" /\ gpc' # "wait"
                /\ Len(events') = Len(events) + 1
                /\ Len(stdout_lines') <= Len(stdout_lines) + 1)]_vars
    /\ [][(running = 0 /\ events' = events) => stdout_lines' = stdout_lines]_vars
    /\ (running = 0 ~> gpc = "exit")

\* C17 witness: the flag was cleared and the loop, having written deltas, has
\* exited on it, no wait having failed.
C17_Witness ==
    /\ running = 0
    /\ gpc = "exit"
    /\ ~wait_error
    /\ Len(stdout_lines) >= 1

\* C18 (as claimed): a failed receive call is fatal to that call only: unless the
\* channel is closed or cancellation was requested the loop tries again, so the
\* receiving loop has only ended on a cleared running flag or a closed channel.
C18_ReceiveFailureRetried ==
    rpc = "exit" => (running = 0 \/ recv_errno = "EBADF")

====
